---- MODULE Spec2Model ----
(***************************************************************************)
(* Model of the offer copy batch endpoint (server/src/routes/offers.ts)   *)
(* and of the schemas it validates with (packages/core/src/schemas/       *)
(* offer.ts): the POST /generate handler, mapWithConcurrency, its workers *)
(* and processOffer with its fence stripping, JSON parsing and schema     *)
(* validation.                                                            *)
(*                                                                         *)
(* Text is a sequence of one-character strings.  The lexeme of one JSON   *)
(* value is a single element of the sequence (a name of JSONLexemes): no  *)
(* JSON value begins or ends with a backquote or with whitespace, and the  *)
(* two regular expressions of processOffer only look at the two ends of   *)
(* the text.                                                               *)
(***************************************************************************)
EXTENDS Integers, Sequences, FiniteSets, TLC

VARIABLES req, hpc, responses, batchStart, items, concurrency, results,
          nextIndex, wpc, wi, wstart, wcall, wout, all, ret, now,
          fnCalls, fnOut, prompts, writes, texts

(* req          the body of the request (req.body, line 134)               *)
(* hpc          where the handler is: "received", "awaiting" (line 145),   *)
(*              "done"; "direct", "direct_awaiting" for a direct call of   *)
(*              mapWithConcurrency                                         *)
(* responses    the responses sent with res.status(..).json(..)            *)
(* batchStart   line 142                                                   *)
(* items, concurrency   the arguments of mapWithConcurrency                *)
(* results      line 103: a slot is <<>> (a hole) or <<value>>             *)
(* nextIndex    line 104                                                   *)
(* wpc, wi      for each worker, where it is and the index i it claimed    *)
(* wstart       the start of line 35 of the worker's task                  *)
(* wcall        the time its call of generateText began (line 66)          *)
(* wout         what its task settled with, until await fn resumes         *)
(* all          Promise.all(workers), line 117                             *)
(* ret          what the await of mapWithConcurrency gave its caller       *)
(* now          Date.now()                                                 *)
(* fnCalls, prompts, writes, fnOut, texts   for each index: the number of  *)
(*              invocations of fn, the prompts sent to the service, the    *)
(*              number of writes of its slot, what fn settled with and the *)
(*              text the service answered                                  *)

vars == <<req, hpc, responses, batchStart, items, concurrency, results,
          nextIndex, wpc, wi, wstart, wcall, wout, all, ret, now,
          fnCalls, fnOut, prompts, writes, texts>>

----------------------------------------------------------------------------
(* Bounds of the model *)

MaxN == 2

MaxSchedN == 3

MaxLiveN == 2

MaxK == 2

TickMs == 2500

----------------------------------------------------------------------------
(* Program constants *)

PER_OFFER_TIMEOUT_MS == 5000

BATCH_CONCURRENCY == 10

MinOffers == 1

MaxOffers == 50

MinDescription == 1

MaxDescription == 2000

MaxExistingCopy == 5000

OFFER_TYPES ==
  {"discount", "bundle", "limited-time", "loyalty", "free-trial", "referral",
   "seasonal", "clearance"}

Min(a, b) == IF a <= b THEN a ELSE b

----------------------------------------------------------------------------
(* Text helpers: String.prototype.trim, slice, and the character classes   *)
(* of the regular expressions.                                             *)

Whitespace == {" ", "\n", "\t"}

IsWs(c) == c \in Whitespace

AllWs(s) == \A k \in 1..Len(s) : IsWs(s[k])

Drop(s, n) == SubSeq(s, n + 1, Len(s))

Slice(s, n) == SubSeq(s, 1, Min(n, Len(s)))

RECURSIVE TrimStart(_)
TrimStart(s) == IF s # <<>> /\ IsWs(Head(s)) THEN TrimStart(Tail(s)) ELSE s

RECURSIVE TrimEnd(_)
TrimEnd(s) ==
  IF s # <<>> /\ IsWs(s[Len(s)]) THEN TrimEnd(SubSeq(s, 1, Len(s) - 1)) ELSE s

Trim(s) == TrimEnd(TrimStart(s))

ToLower(c) ==
  CASE c = "J" -> "j" [] c = "S" -> "s" [] c = "O" -> "o" [] c = "N" -> "n"
    [] OTHER -> c

StartsWith(s, p) == Len(s) >= Len(p) /\ SubSeq(s, 1, Len(p)) = p

(* The character U+0060 (the lexer of TLA+ does not take it in a string). *)
Backquote == "bq"

Fence == <<Backquote, Backquote, Backquote>>

----------------------------------------------------------------------------
(* JSON values, tagged by their JSON type. *)

JStr(s) == [t |-> "string", s |-> s]

JNull == [t |-> "null"]

JNum(n) == [t |-> "number", n |-> n]

JObj(f) == [t |-> "object", f |-> f]

JArr == [t |-> "array"]

(* The documents the generation service answers with in this model, by    *)
(* the name of their lexeme.  DocExample is the document of the API       *)
(* reference with two explicit nulls.                                     *)
DocExample ==
  JObj([headline |-> JStr(<<"S">>), subheadline |-> JNull,
        body |-> JStr(<<"b">>), callToAction |-> JStr(<<"c">>),
        legalDisclaimer |-> JNull])

DocFull ==
  JObj([headline |-> JStr(<<"H">>), subheadline |-> JStr(<<"s">>),
        body |-> JStr(<<>>), callToAction |-> JStr(<<"c">>),
        legalDisclaimer |-> JStr(<<"l">>)])

DocNoCallToAction ==
  JObj([headline |-> JStr(<<"S">>), subheadline |-> JNull,
        body |-> JStr(<<"b">>), legalDisclaimer |-> JNull])

DocNoSubheadline ==
  JObj([headline |-> JStr(<<"S">>), body |-> JStr(<<"b">>),
        callToAction |-> JStr(<<"c">>), legalDisclaimer |-> JNull])

DocSubheadlineNumber ==
  JObj([headline |-> JStr(<<"S">>), subheadline |-> JNum(7),
        body |-> JStr(<<"b">>), callToAction |-> JStr(<<"c">>),
        legalDisclaimer |-> JNull])

DocHeadlineNull ==
  JObj([headline |-> JNull, subheadline |-> JNull,
        body |-> JStr(<<"b">>), callToAction |-> JStr(<<"c">>),
        legalDisclaimer |-> JNull])

DocExtraField ==
  JObj([headline |-> JStr(<<"S">>), subheadline |-> JNull,
        body |-> JStr(<<"b">>), callToAction |-> JStr(<<"c">>),
        legalDisclaimer |-> JNull, notes |-> JStr(<<"n">>)])

DocRenamedField ==
  JObj([headline |-> JStr(<<"S">>), subheadline |-> JNull,
        body |-> JStr(<<"b">>), cta |-> JStr(<<"c">>),
        legalDisclaimer |-> JNull])

JSONLexemes ==
  [ex |-> DocExample, full |-> DocFull, noCta |-> DocNoCallToAction,
   noSub |-> DocNoSubheadline, subNum |-> DocSubheadlineNumber,
   headNull |-> DocHeadlineNull, extra |-> DocExtraField,
   renamed |-> DocRenamedField, null |-> JNull, seven |-> JNum(7),
   arr |-> JArr, str |-> JStr(<<"S">>)]

(* JSON.parse: <<value>>, or <<>> for a SyntaxError.  JSON.parse skips    *)
(* whitespace around the one value of the text.                           *)
JSONParse(s) ==
  LET v == Trim(s)
  IN  IF Len(v) = 1 /\ v[1] \in DOMAIN JSONLexemes
      THEN <<JSONLexemes[v[1]]>>
      ELSE <<>>

----------------------------------------------------------------------------
(* processOffer, lines 73-76: the two replaces and the trim. *)

LowerSeq(s) == [k \in 1..Len(s) |-> ToLower(s[k])]

JsonTag == <<"j", "s", "o", "n">>

(* text.replace(/^```(?:json)?\s*/i, '') *)
StripOpeningFence(s) ==
  IF ~StartsWith(s, Fence) THEN s
  ELSE LET a == Drop(s, 3)
           b == IF StartsWith(LowerSeq(a), JsonTag) THEN Drop(a, 4) ELSE a
       IN  TrimStart(b)

(* s matches /^\s*```\s*$/ *)
IsClosingFence(s) ==
  \E a \in 0..Len(s) :
    /\ Len(s) >= a + 3
    /\ AllWs(SubSeq(s, 1, a))
    /\ SubSeq(s, a + 1, a + 3) = Fence
    /\ AllWs(Drop(s, a + 3))

(* .replace(/\s*```\s*$/, ''): the leftmost match is replaced. *)
StripClosingFence(s) ==
  LET starts == {p \in 1..Len(s) : IsClosingFence(Drop(s, p - 1))}
  IN  IF starts = {} THEN s
      ELSE LET p == CHOOSE q \in starts : \A r \in starts : q <= r
           IN  SubSeq(s, 1, p - 1)

Cleaned(s) == Trim(StripClosingFence(StripOpeningFence(s)))

----------------------------------------------------------------------------
(* offerCopySchema (schemas/offer.ts, lines 32-38): a z.object of five    *)
(* keys; z.object strips the keys it does not know.                       *)

CopyKeys == {"headline", "subheadline", "body", "callToAction", "legalDisclaimer"}

NullableKeys == {"subheadline", "legalDisclaimer"}

ZString(v) == v.t = "string"

(* A nullable field that also takes a number. *)
ZNullableStringOrNumber(v) == v.t \in {"string", "null", "number"}


ZNullableString(v) == v.t \in {"string", "null"}

CopyFieldValid(f, k) ==
  /\ k \in DOMAIN f
  /\ IF k \in NullableKeys THEN ZNullableString(f[k]) ELSE ZString(f[k])

CopyValid(v) == v.t = "object" /\ \A k \in CopyKeys : CopyFieldValid(v.f, k)

(* A parse that gives the empty string for a null. *)
OfferCopyParseDefaults(v) ==
  IF CopyValid(v)
  THEN <<[k \in CopyKeys |-> IF v.f[k] = JNull THEN JStr(<<>>) ELSE v.f[k]]>>
  ELSE <<>>

(* offerCopySchema.parse: <<copy>>, or <<>> for a ZodError. *)
OfferCopyParse(v) ==
  IF CopyValid(v) THEN <<[k \in CopyKeys |-> v.f[k]]>> ELSE <<>>

----------------------------------------------------------------------------
(* Input schemas (schemas/offer.ts, lines 6-26).  An offer is a record;   *)
(* the optional existingCopy is a field the record has or does not have.  *)

HasExistingCopy(offer) == "existingCopy" \in DOMAIN offer

(* The schema without the bound of line 15 on existingCopy. *)
OfferInputValidNoCopyBound(offer) ==
  /\ offer.offerType \in OFFER_TYPES
  /\ Len(offer.offerDescription) >= MinDescription
  /\ Len(offer.offerDescription) <= MaxDescription

OfferInputValid(offer) ==
  /\ offer.offerType \in OFFER_TYPES
  /\ Len(offer.offerDescription) >= MinDescription
  /\ Len(offer.offerDescription) <= MaxDescription
  /\ HasExistingCopy(offer) => Len(offer.existingCopy) <= MaxExistingCopy

(* The upper bound of the array taken as exclusive. *)
OfferRequestBodyValidExclusive(body) ==
  /\ Len(body.offers) >= MinOffers
  /\ Len(body.offers) < MaxOffers
  /\ \A k \in 1..Len(body.offers) : OfferInputValid(body.offers[k])


OfferRequestBodyValid(body) ==
  /\ Len(body.offers) >= MinOffers
  /\ Len(body.offers) <= MaxOffers
  /\ \A k \in 1..Len(body.offers) : OfferInputValid(body.offers[k])

----------------------------------------------------------------------------
(* processOffer (lines 34-93). *)

(* The truth value JavaScript gives offer.existingCopy: undefined and the *)
(* empty string are falsy.                                                *)
ExistingCopyTruthy(offer) == HasExistingCopy(offer) /\ offer.existingCopy # <<>>

(* Lines 40-58: the user prompt, by its framing and the texts joined in.  *)
UserPrompt(offer) ==
  IF ExistingCopyTruthy(offer)
  THEN [framing |-> "revise", offerDescription |-> offer.offerDescription,
        existingCopy |-> offer.existingCopy]
  ELSE [framing |-> "generate", offerDescription |-> offer.offerDescription]

(* The mode by the presence of the field, the prompt left as it is. *)
ModeByPresence(offer) ==
  IF HasExistingCopy(offer) THEN "modified" ELSE "generated"

(* Line 89. *)
Mode(offer) == IF ExistingCopyTruthy(offer) THEN "modified" ELSE "generated"

MsgInvalidJson ==
  <<"M", "o", "d", "e", "l", " ", "r", "e", "t", "u", "r", "n", "e", "d",
    " ", "i", "n", "v", "a", "l", "i", "d", " ", "J", "S", "O", "N", " ",
    "f", "o", "r", " ", "o", "f", "f", "e", "r", " ", "\"">>

(* The four characters after the excerpt of the description: U+2026, a    *)
(* double quote, a colon and a space.                                     *)
MsgEllipsis ==
  <<"...", "\"", ":", " ">>

DescExcerpt == 60

RawExcerpt == 200

(* The message with the whole description and the whole text. *)
InvalidJsonMessageWhole(offer, raw) ==
  MsgInvalidJson \o offer.offerDescription \o MsgEllipsis \o raw

(* Lines 79-81: the message of the Error thrown when JSON.parse throws.   *)
InvalidJsonMessage(offer, raw) ==
  MsgInvalidJson \o Slice(offer.offerDescription, DescExcerpt)
    \o MsgEllipsis \o Slice(raw, RawExcerpt)

(* A thrown value: its class, its message and the task that threw it.     *)
Thrown(kind, message, i) == [kind |-> kind, message |-> message, task |-> i]

Rejected(err) == [ok |-> FALSE, error |-> err]

Fulfilled(v) == [ok |-> TRUE, value |-> v]

(* The catch of line 78 swallowing the SyntaxError and going on with null *)
(* for the document.                                                      *)
ProcessOfferDecodeSwallow(offer, i, raw, start, t) ==
  LET parsed == JSONParse(Cleaned(raw))
      doc == IF parsed = <<>> THEN JNull ELSE parsed[1]
      copy == OfferCopyParse(doc)
  IN  IF copy = <<>>
      THEN Rejected(Thrown("ZodError", <<"issues">>, i))
      ELSE Fulfilled([offerType |-> offer.offerType,
                      offerDescription |-> offer.offerDescription,
                      mode |-> Mode(offer),
                      copy |-> copy[1],
                      processingTimeMs |-> t - start])

(* Lines 69-92: what processOffer settles with once generateText has      *)
(* returned raw at time t; start is the Date.now() of line 35.            *)
ProcessOfferDecode(offer, i, raw, start, t) ==
  LET parsed == JSONParse(Cleaned(raw))
  IN  IF parsed = <<>>
      THEN Rejected(Thrown("Error", InvalidJsonMessage(offer, raw), i))
      ELSE LET copy == OfferCopyParse(parsed[1])
           IN  IF copy = <<>>
               THEN Rejected(Thrown("ZodError", <<"issues">>, i))
               ELSE Fulfilled([offerType |-> offer.offerType,
                               offerDescription |-> offer.offerDescription,
                               mode |-> Mode(offer),
                               copy |-> copy[1],
                               processingTimeMs |-> t - start])

----------------------------------------------------------------------------
(* mapWithConcurrency (lines 98-119).  Indexes are those of the code,     *)
(* 0..N-1.  A worker is at "lookup" (await myProvider.languageModel),     *)
(* "generate" (await generateText), "settled" (processOffer has settled,  *)
(* the worker's await fn has not resumed yet), "fulfilled" or "rejected"  *)
(* (the worker's promise).                                                *)

Indexes(its) == 0..(Len(its) - 1)

At(its, i) == its[i + 1]

Pending == [state |-> "pending", reason |-> <<>>]

(* The cursor incremented after the await of fn instead of at the claim. *)
WorkerLoopLateIncrement(S, its, w, t) ==
  LET n == IF S.wpc[w] = "settled" THEN S.nextIndex + 1 ELSE S.nextIndex
  IN  IF n < Len(its)
      THEN [S EXCEPT !.nextIndex = n,
                     !.wpc[w] = "lookup",
                     !.wi[w] = n,
                     !.wstart[w] = t,
                     !.fnCalls[n] = @ + 1]
      ELSE [S EXCEPT !.nextIndex = n, !.wpc[w] = "fulfilled"]

(* Lines 107-109, from the test of the loop to the first await of         *)
(* processOffer (line 60), for worker w at time t.                        *)
WorkerLoop(S, its, w, t) ==
  IF S.nextIndex < Len(its)
  THEN [S EXCEPT !.nextIndex = S.nextIndex + 1,
                 !.wpc[w] = "lookup",
                 !.wi[w] = S.nextIndex,
                 !.wstart[w] = t,
                 !.fnCalls[S.nextIndex] = @ + 1]
  ELSE [S EXCEPT !.wpc[w] = "fulfilled"]

(* Lines 113-116: the workers are started one after the other, each       *)
(* running to its first await.                                            *)
RECURSIVE Launch(_, _, _, _, _)
Launch(S, its, w, W, t) ==
  IF w > W THEN S ELSE Launch(WorkerLoop(S, its, w, t), its, w + 1, W, t)

(* One worker per item, the cap left out. *)
WorkerCountNoCap(its, k) == Len(its)

(* Line 114. *)
WorkerCount(its, k) == Min(k, Len(its))

(* Promise.allSettled in the place of Promise.all: rejections are waited  *)
(* for like fulfilments and the whole fulfills.                           *)
AllAfterSettled(a, pcs, w, out) ==
  IF a.state # "pending" THEN a
  ELSE IF \A v \in DOMAIN pcs : pcs[v] \in {"fulfilled", "rejected"}
       THEN [state |-> "fulfilled", reason |-> <<>>]
       ELSE a

(* A Promise.all whose rejection a later rejection replaces.              *)
AllAfterLast(a, pcs, w, out) ==
  IF w \in DOMAIN pcs /\ pcs[w] = "rejected"
  THEN [state |-> "rejected", reason |-> <<out.error>>]
  ELSE IF a.state # "pending" THEN a
       ELSE IF \A v \in DOMAIN pcs : pcs[v] = "fulfilled"
            THEN [state |-> "fulfilled", reason |-> <<>>]
            ELSE a

(* Promise.race in the place of Promise.all: the whole settles with the   *)
(* first worker that exits.                                               *)
AllAfterRace(a, pcs, w, out) ==
  IF a.state # "pending" THEN a
  ELSE IF w \in DOMAIN pcs /\ pcs[w] = "rejected"
       THEN [state |-> "rejected", reason |-> <<out.error>>]
       ELSE IF \E v \in DOMAIN pcs : pcs[v] = "fulfilled"
            THEN [state |-> "fulfilled", reason |-> <<>>]
            ELSE a

(* The workers awaited one after the other in the place of Promise.all:  *)
(* the whole rejects when the first worker that has not fulfilled has     *)
(* rejected, with that worker's exception.                                *)
AllAfterInOrder(a, pcs, w, out) ==
  IF a.state # "pending" THEN a
  ELSE LET open == {v \in DOMAIN pcs : pcs[v] # "fulfilled"}
       IN  IF open = {}
           THEN [state |-> "fulfilled", reason |-> <<>>]
           ELSE LET v == CHOOSE v \in open : \A u \in open : v <= u
                IN  IF pcs[v] = "rejected"
                    THEN [state |-> "rejected", reason |-> <<wout[v][1].error>>]
                    ELSE a

(* Promise.all (line 117) after worker w has moved: it rejects with the   *)
(* first rejection and fulfills once every worker has fulfilled.          *)
AllAfter(a, pcs, w, out) ==
  IF a.state # "pending" THEN a
  ELSE IF w \in DOMAIN pcs /\ pcs[w] = "rejected"
       THEN [state |-> "rejected", reason |-> <<out.error>>]
       ELSE IF \A v \in DOMAIN pcs : pcs[v] = "fulfilled"
            THEN [state |-> "fulfilled", reason |-> <<>>]
            ELSE a

(* Lines 103-117: the call of mapWithConcurrency(its, k, fn), up to its   *)
(* await.                                                                  *)
MapStart(its, k) ==
  LET W == WorkerCount(its, k)
      S0 == [nextIndex |-> 0,
             wpc |-> [w \in 1..W |-> "new"],
             wi |-> [w \in 1..W |-> 0],
             wstart |-> [w \in 1..W |-> 0],
             fnCalls |-> [i \in Indexes(its) |-> 0]]
      S == Launch(S0, its, 1, W, now)
  IN  /\ items' = its
      /\ concurrency' = k
      /\ results' = [i \in Indexes(its) |-> <<>>]
      /\ nextIndex' = S.nextIndex
      /\ wpc' = S.wpc
      /\ wi' = S.wi
      /\ wstart' = S.wstart
      /\ fnCalls' = S.fnCalls
      /\ wcall' = [w \in 1..W |-> 0]
      /\ wout' = [w \in 1..W |-> <<>>]
      /\ all' = AllAfter(Pending, S.wpc, 0, <<>>)
      /\ prompts' = [i \in Indexes(its) |-> <<>>]
      /\ writes' = [i \in Indexes(its) |-> 0]
      /\ fnOut' = [i \in Indexes(its) |-> <<>>]
      /\ texts' = [i \in Indexes(its) |-> <<>>]

(* No continuation is waiting: the promise of fn settles inside the job   *)
(* of an event (an answer, a timer, the lookup), and the continuation of  *)
(* the worker's await fn (line 109) is a microtask, which runs before the *)
(* job of the next event and before the clock moves.                      *)
Drained == \A v \in DOMAIN wpc : wpc[v] # "settled"

(* The task of worker w settles with out. *)
Settle(w, out) ==
  /\ wpc' = [wpc EXCEPT ![w] = "settled"]
  /\ wout' = [wout EXCEPT ![w] = <<out>>]
  /\ fnOut' = [fnOut EXCEPT ![wi[w]] = <<out>>]

(* Line 60: the lookup of the model resolves and generateText is called   *)
(* (lines 62-67) with the prompt and a fresh AbortSignal.timeout.         *)
LookupResolves(w) ==
  /\ w \in DOMAIN wpc
  /\ Drained
  /\ wpc[w] = "lookup"
  /\ wpc' = [wpc EXCEPT ![w] = "generate"]
  /\ wcall' = [wcall EXCEPT ![w] = now]
  /\ prompts' = [prompts EXCEPT ![wi[w]] = Append(@, UserPrompt(At(items, wi[w])))]
  /\ UNCHANGED <<req, hpc, responses, batchStart, items, concurrency, results,
                 nextIndex, wi, wstart, wout, all, ret, now, fnCalls, fnOut,
                 writes, texts>>

(* The classes of the value a failing lookup throws: the provider is not  *)
(* part of these sources, and the handler's catch (line 160) tells a      *)
(* ChatSDKError from every other value.                                   *)
LookupErrors == {"Error", "ChatSDKError"}

(* Line 60: the lookup of the model throws a value of class kind; the     *)
(* message of a ChatSDKError stands for its code.                         *)
LookupRejects(w, kind) ==
  /\ w \in DOMAIN wpc
  /\ Drained
  /\ wpc[w] = "lookup"
  /\ Settle(w, Rejected(Thrown(kind,
                               IF kind = "ChatSDKError"
                               THEN <<"bad_request:api">>
                               ELSE <<"provider">>,
                               wi[w])))
  /\ UNCHANGED <<req, hpc, responses, batchStart, items, concurrency, results,
                 nextIndex, wi, wstart, wcall, all, ret, now, fnCalls,
                 prompts, writes, texts>>

(* generateText called without an abortSignal: no timer is ever due. *)
DeadlineNever(w) == FALSE

(* The timer of AbortSignal.timeout(PER_OFFER_TIMEOUT_MS) of worker w's   *)
(* call is due.                                                            *)
DeadlineReached(w) == now - wcall[w] >= PER_OFFER_TIMEOUT_MS

(* Lines 62-92: generateText returns raw before the deadline; the rest of *)
(* processOffer runs without an await.                                    *)
GenerateReturns(w, raw) ==
  /\ w \in DOMAIN wpc
  /\ Drained
  /\ wpc[w] = "generate"
  /\ ~DeadlineReached(w)
  /\ Settle(w, ProcessOfferDecode(At(items, wi[w]), wi[w], raw, wstart[w], now))
  /\ texts' = [texts EXCEPT ![wi[w]] = <<raw>>]
  /\ UNCHANGED <<req, hpc, responses, batchStart, items, concurrency, results,
                 nextIndex, wi, wstart, wcall, all, ret, now, fnCalls,
                 prompts, writes>>

(* Lines 62-67: generateText throws something else than the abort. *)
GenerateFails(w) ==
  /\ w \in DOMAIN wpc
  /\ Drained
  /\ wpc[w] = "generate"
  /\ ~DeadlineReached(w)
  /\ Settle(w, Rejected(Thrown("Error", <<"service">>, wi[w])))
  /\ UNCHANGED <<req, hpc, responses, batchStart, items, concurrency, results,
                 nextIndex, wi, wstart, wcall, all, ret, now, fnCalls,
                 prompts, writes, texts>>

(* Line 66: the signal aborts the call at the deadline. *)
GenerateTimesOut(w) ==
  /\ w \in DOMAIN wpc
  /\ Drained
  /\ wpc[w] = "generate"
  /\ DeadlineReached(w)
  /\ Settle(w, Rejected(Thrown("TimeoutError", <<"timeout">>, wi[w])))
  /\ UNCHANGED <<req, hpc, responses, batchStart, items, concurrency, results,
                 nextIndex, wi, wstart, wcall, all, ret, now, fnCalls,
                 prompts, writes, texts>>

(* The slot, had the worker read the shared cursor after its await. *)
WriteSlotCursor(w) == nextIndex - 1

(* The slot worker w writes (line 109). *)
WriteSlot(w) == wi[w]

(* Lines 107-110: await fn resumes in worker w.  With a value it writes   *)
(* the slot and goes round the loop; with an exception the worker's       *)
(* promise rejects.                                                       *)
WorkerResumes(w) ==
  /\ w \in DOMAIN wpc
  /\ wpc[w] = "settled"
  /\ LET out == wout[w][1]
         S0 == [nextIndex |-> nextIndex, wpc |-> wpc, wi |-> wi,
                wstart |-> wstart, fnCalls |-> fnCalls]
         S == IF out.ok THEN WorkerLoop(S0, items, w, now)
              ELSE [S0 EXCEPT !.wpc[w] = "rejected"]
     IN  /\ results' = IF out.ok
                       THEN [results EXCEPT ![WriteSlot(w)] = <<out.value>>]
                       ELSE results
         /\ writes' = IF out.ok
                      THEN [writes EXCEPT ![WriteSlot(w)] = @ + 1]
                      ELSE writes
         /\ nextIndex' = S.nextIndex
         /\ wpc' = S.wpc
         /\ wi' = S.wi
         /\ wstart' = S.wstart
         /\ fnCalls' = S.fnCalls
         /\ all' = AllAfter(all, S.wpc, w, out)
  /\ UNCHANGED <<req, hpc, responses, batchStart, items, concurrency, wcall,
                 wout, ret, now, fnOut, prompts, texts>>

(* What the await of line 117 and the return of line 118 give the caller. *)
MapOutcome ==
  IF all.state = "fulfilled"
  THEN Fulfilled([k \in 1..Len(items) |-> results[k - 1]])
  ELSE Rejected(all.reason[1])

----------------------------------------------------------------------------
(* The POST /generate handler (lines 127-172). *)

(* ChatSDKError.toResponse: the response of the error with this code.     *)
ChatSDKResponse(code) == [status |-> 400, code |-> code]

(* Lines 137-138. *)
BadRequestResponse == ChatSDKResponse("bad_request:api")

(* The catch of lines 157-170 without the test of line 160. *)
ErrorResponseGeneric(err) ==
  [status |-> 500, error |-> "Failed to generate offer copy",
   message |-> err.message]

(* Lines 157-170: a ChatSDKError answers with its own response, any other *)
(* value with the 500 that carries the value's message.                   *)
ErrorResponse(err) ==
  IF err.kind = "ChatSDKError"
  THEN ChatSDKResponse(err.message[1])
  ELSE [status |-> 500, error |-> "Failed to generate offer copy",
        message |-> err.message]

(* The response, had batchStart been taken after the await of line 144. *)
OkResponseLateStart(rs, t) ==
  [status |-> 200, results |-> rs, totalProcessingTimeMs |-> t - t]

(* Lines 151-156. *)
OkResponse(rs, t) ==
  [status |-> 200, results |-> rs, totalProcessingTimeMs |-> t - batchStart]

(* Lines 131-149: the body is parsed; a body the schema rejects is        *)
(* answered at once, any other starts mapWithConcurrency.                 *)
PostGenerate ==
  /\ hpc = "received"
  /\ IF ~OfferRequestBodyValid(req)
     THEN /\ responses' = Append(responses, BadRequestResponse)
          /\ hpc' = "done"
          /\ UNCHANGED <<batchStart, items, concurrency, results, nextIndex,
                         wpc, wi, wstart, wcall, wout, all, fnCalls, fnOut,
                         prompts, writes, texts>>
     ELSE /\ batchStart' = now
          /\ MapStart(req.offers, BATCH_CONCURRENCY)
          /\ hpc' = "awaiting"
          /\ UNCHANGED responses
  /\ UNCHANGED <<req, ret, now>>

(* Lines 145-170: the await of mapWithConcurrency resumes in the handler. *)
HandlerResumes ==
  /\ hpc = "awaiting"
  /\ all.state # "pending"
  /\ ret' = <<MapOutcome>>
  /\ responses' = Append(responses,
                         IF MapOutcome.ok
                         THEN OkResponse(MapOutcome.value, now)
                         ELSE ErrorResponse(MapOutcome.error))
  /\ hpc' = "done"
  /\ UNCHANGED <<req, batchStart, items, concurrency, results, nextIndex,
                 wpc, wi, wstart, wcall, wout, all, now, fnCalls, fnOut,
                 prompts, writes, texts>>

----------------------------------------------------------------------------
(* mapWithConcurrency called on its own with a cap k, as a test of the    *)
(* function calls it: req.offers are the items, concurrency the cap.      *)

DirectCall ==
  /\ hpc = "direct"
  /\ MapStart(req.offers, concurrency)
  /\ hpc' = "direct_awaiting"
  /\ UNCHANGED <<req, responses, batchStart, ret, now>>

DirectReturns ==
  /\ hpc = "direct_awaiting"
  /\ all.state # "pending"
  /\ ret' = <<MapOutcome>>
  /\ hpc' = "done"
  /\ UNCHANGED <<req, responses, batchStart, items, concurrency, results,
                 nextIndex, wpc, wi, wstart, wcall, wout, all, now, fnCalls,
                 fnOut, prompts, writes, texts>>

----------------------------------------------------------------------------
(* Time.  The clock moves in steps of TickMs while a call of generateText *)
(* is in flight, and a timer that is due fires before the clock moves on. *)

MaxClock == (MaxN + MaxSchedN) * (PER_OFFER_TIMEOUT_MS + TickMs)

Tick ==
  /\ Drained
  /\ \E w \in DOMAIN wpc : wpc[w] = "generate"
  /\ \A w \in DOMAIN wpc : wpc[w] = "generate" => ~DeadlineReached(w)
  /\ now < MaxClock
  /\ now' = now + TickMs
  /\ UNCHANGED <<req, hpc, responses, batchStart, items, concurrency, results,
                 nextIndex, wpc, wi, wstart, wcall, wout, all, ret, fnCalls,
                 fnOut, prompts, writes, texts>>

----------------------------------------------------------------------------
(* The requests and the answers of the generation service. *)

OfferNew == [offerType |-> "discount", offerDescription |-> <<"a">>]

OfferRevise ==
  [offerType |-> "bundle", offerDescription |-> <<"b">>,
   existingCopy |-> <<"e">>]

OfferEmptyCopy ==
  [offerType |-> "seasonal", offerDescription |-> <<"a", "b">>,
   existingCopy |-> <<>>]

OfferBadType == [offerType |-> "coupon", offerDescription |-> <<"a">>]

OfferKinds == {OfferNew, OfferRevise}

TextOf(n) == [k \in 1..n |-> "a"]

SeqsUpTo(S, n) == UNION {[1..m -> S] : m \in 0..n}

Bodies ==
  {[offers |-> s] : s \in SeqsUpTo(OfferKinds, MaxN)}
    \cup {[offers |-> <<OfferNew, OfferBadType>>]}

Fenced(s) == Fence \o JsonTag \o <<"\n">> \o s \o <<"\n">> \o Fence

ServiceTexts == {Fenced(<<"ex">>), <<"x">>, <<"noCta">>}

Workers == 1..(MaxN + MaxSchedN)

InitCommon ==
  /\ responses = <<>>
  /\ batchStart = 0
  /\ items = <<>>
  /\ results = <<>>
  /\ nextIndex = 0
  /\ wpc = <<>>
  /\ wi = <<>>
  /\ wstart = <<>>
  /\ wcall = <<>>
  /\ wout = <<>>
  /\ all = Pending
  /\ ret = <<>>
  /\ now = 0
  /\ fnCalls = <<>>
  /\ fnOut = <<>>
  /\ prompts = <<>>
  /\ writes = <<>>
  /\ texts = <<>>

(* A request has arrived at the handler. *)
Init ==
  /\ req \in Bodies
  /\ hpc = "received"
  /\ concurrency = 0
  /\ InitCommon

(* The steps of the tasks and workers, the service answering from T and   *)
(* a failing lookup throwing a value of a class of E.                     *)
TaskStep(T, E) ==
  \E w \in Workers :
    \/ LookupResolves(w)
    \/ \E kind \in E : LookupRejects(w, kind)
    \/ \E raw \in T : GenerateReturns(w, raw)
    \/ GenerateFails(w)
    \/ GenerateTimesOut(w)
    \/ WorkerResumes(w)

TaskNext == TaskStep(ServiceTexts, LookupErrors)

Next ==
  \/ PostGenerate
  \/ TaskNext
  \/ HandlerResumes
  \/ Tick

Spec == Init /\ [][Next]_vars

(* mapWithConcurrency is about to be called with a cap of 1..MaxK.  It    *)
(* takes what fn settles with as a value or as an exception and looks no  *)
(* further: one answer that decodes, one that does not and one class of   *)
(* exception stand for all.                                               *)
SchedTexts == {Fenced(<<"ex">>), <<"x">>}

SchedErrors == {"Error"}

(* The items: n offers, no two alike, with and without existingCopy in    *)
(* turn.                                                                  *)
SchedItems(n) ==
  [k \in 1..n |->
     IF k % 2 = 1
     THEN [OfferNew EXCEPT !.offerDescription = TextOf(k)]
     ELSE [OfferRevise EXCEPT !.offerDescription = TextOf(k)]]

SchedInit ==
  /\ req \in {[offers |-> SchedItems(n)] : n \in 0..MaxSchedN}
  /\ hpc = "direct"
  /\ concurrency \in 1..MaxK
  /\ InitCommon

SchedNext ==
  \/ DirectCall
  \/ TaskStep(SchedTexts, SchedErrors)
  \/ DirectReturns
  \/ Tick

SchedSpec == SchedInit /\ [][SchedNext]_vars

----------------------------------------------------------------------------
(* One task with every kind of offer and every answer of DecodeTexts: a   *)
(* document, or a text that is no JSON, bare or wrapped in fences.        *)

TaskOffers == {OfferNew, OfferRevise, OfferEmptyCopy}

BareTexts == {<<x>> : x \in DOMAIN JSONLexemes \cup {"x"}}

OptionalNewline == {<<>>, <<"\n">>}

OpeningFences ==
  {<<>>, Fence, Fence \o JsonTag, Fence \o <<"J", "S", "O", "N">>}

ClosingFences == {<<>>, Fence}

Wrap(pre, open, ws1, s, ws2, close, post) ==
  pre \o open \o ws1 \o s \o ws2 \o close \o post

DecodeTexts ==
  {Wrap(pre, open, ws1, s, ws2, close, post) :
     pre \in OptionalNewline, open \in OpeningFences, ws1 \in OptionalNewline,
     s \in BareTexts, ws2 \in OptionalNewline, close \in ClosingFences,
     post \in {<<>>, <<" ">>}}

TaskInit ==
  /\ req \in {[offers |-> <<o>>] : o \in TaskOffers}
  /\ hpc = "received"
  /\ concurrency = 0
  /\ InitCommon

TaskSpecNext ==
  \/ PostGenerate
  \/ TaskStep(DecodeTexts, LookupErrors)
  \/ HandlerResumes
  \/ Tick

TaskSpec == TaskInit /\ [][TaskSpecNext]_vars

----------------------------------------------------------------------------
(* One task whose description and whose answer are shorter than, as long  *)
(* as and longer than the excerpts of lines 79-81.  The characters of a   *)
(* text tell its first position, the positions up to the excerpt's length *)
(* and the positions after it apart.                                      *)

Marked(n, cut, first, in, out) ==
  [k \in 1..n |-> IF k = 1 THEN first ELSE IF k <= cut THEN in ELSE out]

LongOffers ==
  {[offerType |-> "clearance",
    offerDescription |-> Marked(n, DescExcerpt, "<", "d", "D")] :
     n \in {1, DescExcerpt - 1, DescExcerpt, DescExcerpt + 1, MaxDescription}}

LongTexts ==
  {Marked(n, RawExcerpt, "x", "r", "R") :
     n \in {1, RawExcerpt - 1, RawExcerpt, RawExcerpt + 1, RawExcerpt + 100}}
    \cup {Fenced(<<"ex">>)}

MessageInit ==
  /\ req \in {[offers |-> <<o>>] : o \in LongOffers}
  /\ hpc = "received"
  /\ concurrency = 0
  /\ InitCommon

MessageNext ==
  \/ PostGenerate
  \/ TaskStep(LongTexts, LookupErrors)
  \/ HandlerResumes
  \/ Tick

MessageSpec == MessageInit /\ [][MessageNext]_vars

----------------------------------------------------------------------------
(* The parse of the request body alone, on batches of 0..MaxOffers+1      *)
(* offers: the handler up to its answer or to its first await.            *)

Repeat(o, n) == [k \in 1..n |-> o]

(* Offers at and around the bounds of their fields (schemas/offer.ts,     *)
(* lines 7-15): a text of n characters, every type of the enum and one    *)
(* outside it, descriptions of 0, 1, 2000 and 2001 characters, an         *)
(* existingCopy absent or of 0, 5000 and 5001 characters.                 *)
FieldOffers ==
  {[offerType |-> t, offerDescription |-> TextOf(1)] :
     t \in OFFER_TYPES \cup {"coupon", "Discount"}}
    \cup {[offerType |-> "seasonal", offerDescription |-> TextOf(d)] :
            d \in {0, MaxDescription, MaxDescription + 1}}
    \cup {[offerType |-> "seasonal", offerDescription |-> TextOf(d),
           existingCopy |-> TextOf(c)] :
            d \in {MinDescription, MaxDescription},
            c \in {0, MaxExistingCopy, MaxExistingCopy + 1}}

FieldBodies ==
  {[offers |-> <<o>>] : o \in FieldOffers}
    \cup {[offers |-> <<OfferNew, o>>] : o \in FieldOffers}

ShapeBodies ==
  {[offers |-> Repeat(o, n)] :
     o \in {OfferNew, OfferRevise, OfferBadType}, n \in 0..(MaxOffers + 1)}
    \cup FieldBodies

ShapeInit ==
  /\ req \in ShapeBodies
  /\ hpc = "received"
  /\ concurrency = 0
  /\ InitCommon

ShapeNext == PostGenerate

ShapeSpec == ShapeInit /\ [][ShapeNext]_vars

----------------------------------------------------------------------------
(* Liveness.  The event loop runs every continuation that is ready and    *)
(* fires every timer that is due; the lookup of the model settles; the    *)
(* generation service owes no answer.                                     *)

LiveInit ==
  /\ req \in {[offers |-> Repeat(OfferNew, n)] : n \in 1..MaxLiveN}
  /\ hpc = "received"
  /\ concurrency = 0
  /\ InitCommon

Fairness ==
  /\ WF_vars(PostGenerate)
  /\ WF_vars(HandlerResumes)
  /\ WF_vars(Tick)
  /\ \A w \in Workers :
       /\ WF_vars(LookupResolves(w)
                 \/ \E kind \in LookupErrors : LookupRejects(w, kind))
       /\ WF_vars(GenerateTimesOut(w))
       /\ WF_vars(WorkerResumes(w))

LiveSpec == LiveInit /\ [][Next]_vars /\ Fairness

(* The same runs with the event loop and the timers fair and nothing      *)
(* assumed of the lookup of line 60: its promise may stay pending, and    *)
(* no timer of the program is set on it.                                  *)
LoopFairness ==
  /\ WF_vars(PostGenerate)
  /\ WF_vars(HandlerResumes)
  /\ WF_vars(Tick)
  /\ \A w \in Workers :
       /\ WF_vars(GenerateTimesOut(w))
       /\ WF_vars(WorkerResumes(w))

LoopSpec == LiveInit /\ [][Next]_vars /\ LoopFairness

----------------------------------------------------------------------------
(* Properties. *)

RECURSIVE SumTo(_, _)
SumTo(f, n) == IF n < 0 THEN 0 ELSE f[n] + SumTo(f, n - 1)

(* The invocations of fn so far, and those that have settled. *)
Started == SumTo(fnCalls, Len(items) - 1)

Completed == Cardinality({i \in DOMAIN fnOut : fnOut[i] # <<>>})

TaskFailed(i) == fnOut[i] # <<>> /\ ~fnOut[i][1].ok

TaskSucceeded(i) == fnOut[i] # <<>> /\ fnOut[i][1].ok

SomeTaskFailed == \E i \in DOMAIN fnOut : TaskFailed(i)

(* C1: when mapWithConcurrency returns and no invocation of fn has        *)
(* failed, it returns exactly N results and results[i] is what            *)
(* fn(items[i], i) settled with, for every i: the result of index i       *)
(* echoes item i, whatever the order the tasks completed in.              *)
C1_OrderPreserved ==
  (hpc = "done" /\ ~SomeTaskFailed) =>
    /\ ret # <<>>
    /\ ret[1].ok
    /\ Len(ret[1].value) = Len(req.offers)
    /\ \A k \in 1..Len(req.offers) :
         /\ fnOut[k - 1] # <<>>
         /\ ret[1].value[k] = <<fnOut[k - 1][1].value>>
         /\ ret[1].value[k][1].offerType = req.offers[k].offerType
         /\ ret[1].value[k][1].offerDescription = req.offers[k].offerDescription

(* A run of three items under a cap of two has returned its results, and  *)
(* the task of index 1 completed before the task of index 0, which had    *)
(* started at the same time.                                              *)
C1_Witness ==
  /\ hpc = "done"
  /\ ret # <<>>
  /\ ret[1].ok
  /\ Len(items) >= 3
  /\ concurrency = 2
  /\ items[1] # items[2]
  /\ ret[1].value[1][1].processingTimeMs > ret[1].value[2][1].processingTimeMs

(* C2: at every moment the invocations of fn started and not yet settled, *)
(* and the workers inside a call of the generation service, are at most   *)
(* min(K, N).                                                             *)
C2_ConcurrencyBound ==
  hpc \in {"direct_awaiting", "done"} =>
    /\ Started - Completed <= Min(concurrency, Len(items))
    /\ Cardinality({w \in DOMAIN wpc : wpc[w] = "generate"})
         <= Min(concurrency, Len(items))

(* The cap binds: K calls of the service are in flight, K < N, and the    *)
(* workers are past their first items.                                    *)
C2_Witness ==
  /\ hpc = "direct_awaiting"
  /\ concurrency < Len(items)
  /\ nextIndex > concurrency
  /\ Cardinality({w \in DOMAIN wpc : wpc[w] = "generate"}) = concurrency
  /\ Started - Completed = concurrency

(* C3: once a task of the batch has failed, no response of the batch      *)
(* carries a results list, and the response of the batch, when it is      *)
(* sent, is the one failure.                                              *)
C3_FailFastAggregate ==
  SomeTaskFailed =>
    /\ \A k \in 1..Len(responses) :
         /\ responses[k].status # 200
         /\ "results" \notin DOMAIN responses[k]
    /\ hpc = "done" =>
         Len(responses) = 1 /\ responses[1] = ErrorResponse(all.reason[1])

(* A batch of two was answered with the failure although the other task   *)
(* had succeeded and its result was in its slot.                          *)
C3_Witness ==
  /\ hpc = "done"
  /\ Len(items) = 2
  /\ \E i, j \in DOMAIN fnOut :
       TaskFailed(i) /\ TaskSucceeded(j) /\ results[j] # <<>>
  /\ responses[1].status = 500

SchedulerUntouched ==
  /\ items = <<>>
  /\ wpc = <<>>
  /\ nextIndex = 0
  /\ fnCalls = <<>>
  /\ prompts = <<>>

(* C4: a request of 0 or of 51 offers is answered with the bad request    *)
(* and one of 1 or of 50 valid offers is accepted; with a bad request the *)
(* scheduler has not been called, no task has started and no prompt has   *)
(* been sent.                                                             *)
C4_BatchSizeBounds ==
  hpc # "received" =>
    /\ Len(req.offers) \in {0, 51} =>
         responses = <<BadRequestResponse>> /\ hpc = "done"
    /\ (Len(req.offers) \in {1, 50}
          /\ \A k \in 1..Len(req.offers) : req.offers[k] \in OfferKinds) =>
         /\ responses = <<>>
         /\ hpc = "awaiting"
         /\ Len(items) = Len(req.offers)
         /\ Started = Min(10, Len(req.offers))
    /\ (\E k \in 1..Len(responses) : responses[k].status = 400) =>
         SchedulerUntouched

(* A request of 50 offers has been accepted and its first tasks started. *)
C4_Witness ==
  /\ Len(req.offers) = 50
  /\ hpc = "awaiting"
  /\ Started = 10

(* C5: the mode of every Task Result is "modified" when the offer has the *)
(* field existingCopy and "generated" when it has not.                    *)
C5_ModeByPresence ==
  \A i \in DOMAIN fnOut :
    TaskSucceeded(i) =>
      fnOut[i][1].value.mode =
        IF HasExistingCopy(At(items, i)) THEN "modified" ELSE "generated"

InFlightCall(w) == w \in DOMAIN wpc /\ wpc[w] = "generate"

Dispatched(i) == i \in DOMAIN fnCalls /\ fnCalls[i] > 0

Terminal(i) == i \in DOMAIN fnOut /\ fnOut[i] # <<>>

(* The generation service has been called for task i. *)
Called(i) == i \in DOMAIN prompts /\ prompts[i] # <<>>

C7_AtMostOneAttempt ==
  /\ \A i \in DOMAIN prompts : Len(prompts[i]) <= 1
  /\ \A i \in DOMAIN fnCalls : fnCalls[i] <= 1
  /\ \A w, v \in DOMAIN wpc :
       (w # v /\ wpc[w] \in {"lookup", "generate", "settled"}
              /\ wpc[v] \in {"lookup", "generate", "settled"}) => wi[w] # wi[v]

(* The batch is over, a task had timed out and another had failed to      *)
(* decode, and each had called the service once.                          *)
C7_Witness ==
  /\ hpc = "done"
  /\ \E i, j \in DOMAIN fnOut :
       /\ TaskFailed(i) /\ fnOut[i][1].error.kind = "TimeoutError"
       /\ TaskFailed(j) /\ fnOut[j][1].error.kind = "Error" /\ texts[j] # <<>>
       /\ Len(prompts[i]) = 1
       /\ Len(prompts[j]) = 1

(* The document JSON.parse gave for the answer to task i: <<value>>, or   *)
(* <<>> when there is no answer or it is no JSON.                         *)
ParsedAnswer(i) == IF texts[i] = <<>> THEN <<>> ELSE JSONParse(Cleaned(texts[i][1]))

HasExactlyTheFiveFields(v) ==
  /\ v.t = "object"
  /\ DOMAIN v.f = CopyKeys
  /\ \A k \in CopyKeys \ NullableKeys : v.f[k].t = "string"
  /\ \A k \in NullableKeys : v.f[k].t \in {"string", "null"}

SchemaViolation(i) == TaskFailed(i) /\ fnOut[i][1].error.kind = "ZodError"

MalformedOutput(i) ==
  /\ TaskFailed(i)
  /\ fnOut[i][1].error.kind = "Error"
  /\ fnOut[i][1].error.message = InvalidJsonMessage(At(items, i), texts[i][1])

(* C8: a parsed document is accepted only if it has exactly the five      *)
(* fields, rightly typed; any other parsed document, one with an extra or *)
(* a renamed field included, ends in the schema violation, which is not   *)
(* the malformed output failure.                                          *)
C8_ExactlyFiveFields ==
  \A i \in DOMAIN texts :
    ParsedAnswer(i) # <<>> =>
      IF HasExactlyTheFiveFields(ParsedAnswer(i)[1])
      THEN TaskSucceeded(i)
      ELSE SchemaViolation(i) /\ ~MalformedOutput(i)

(* C9: a parsed document without callToAction, or with a number for       *)
(* subheadline, ends in the schema violation and no Task Result comes of  *)
(* it, in its slot or in a response; a document whose subheadline and     *)
(* legalDisclaimer are null is accepted with both nulls.                  *)
C9_SchemaValidation ==
  \A i \in DOMAIN texts :
    ParsedAnswer(i) # <<>> =>
      LET v == ParsedAnswer(i)[1]
      IN  /\ (v.t = "object"
                /\ ("callToAction" \notin DOMAIN v.f
                      \/ ("subheadline" \in DOMAIN v.f
                            /\ v.f.subheadline.t = "number"))) =>
               /\ SchemaViolation(i)
               /\ results[i] = <<>>
               /\ \A k \in 1..Len(responses) : responses[k].status # 200
          /\ v = DocExample =>
               /\ TaskSucceeded(i)
               /\ fnOut[i][1].value.copy.subheadline = JNull
               /\ fnOut[i][1].value.copy.legalDisclaimer = JNull

(* The batch failed on a fenced document whose subheadline is a number.   *)
C9_Witness ==
  /\ hpc = "done"
  /\ texts[0] = <<Fence \o <<"subNum">> \o Fence>>
  /\ SchemaViolation(0)
  /\ responses[1].status = 500

(* The record the decoder gives for raw: <<copy>>, or <<>> for a failure. *)
Decoded(raw) ==
  LET parsed == JSONParse(Cleaned(raw))
  IN  IF parsed = <<>> THEN <<>> ELSE OfferCopyParse(parsed[1])

(* C10: when the answer to a task is a text s that decodes to a record,   *)
(* wrapped in fence markers (an opening fence with or without the tag     *)
(* json, a closing fence, or both, with whitespace around them), the task *)
(* succeeds with the record that s alone decodes to.                      *)
C10_FenceStripping ==
  \A i \in DOMAIN texts :
    \A s \in BareTexts, pre, ws1, ws2 \in OptionalNewline,
       open \in OpeningFences, close \in ClosingFences, post \in {<<>>, <<" ">>} :
      (texts[i] = <<Wrap(pre, open, ws1, s, ws2, close, post)>>
         /\ Decoded(s) # <<>>) =>
        /\ TaskSucceeded(i)
        /\ fnOut[i][1].value.copy = Decoded(s)[1]

(* C11: an answer that is no JSON once the fences are stripped (any       *)
(* answer with a character that no JSON value has among them) ends its    *)
(* task in the malformed output failure; no Task Result comes of it, in   *)
(* its slot or in a response.                                             *)
C11_DecodeAllOrNothing ==
  \A i \in DOMAIN texts :
    (texts[i] # <<>>
       /\ (ParsedAnswer(i) = <<>>
             \/ \E k \in 1..Len(texts[i][1]) : texts[i][1][k] = "x")) =>
      /\ MalformedOutput(i)
      /\ results[i] = <<>>
      /\ \A k \in 1..Len(responses) :
           /\ responses[k].status = 500
           /\ "results" \notin DOMAIN responses[k]

(* The batch failed on a fenced answer that is no JSON. *)
C11_Witness ==
  /\ hpc = "done"
  /\ texts[0] = <<Fence \o JsonTag \o <<"\n", "x", "\n">> \o Fence>>
  /\ MalformedOutput(0)
  /\ responses[1].status = 500
  /\ responses[1].message = fnOut[0][1].error.message

(* C12: a response with results has one result for each offer of the      *)
(* request, and the result at each position echoes the offerType and the  *)
(* offerDescription of the offer at that position.                        *)
C12_ResultsMatchOffers ==
  \A k \in 1..Len(responses) :
    responses[k].status = 200 =>
      /\ Len(responses[k].results) = Len(req.offers)
      /\ \A j \in 1..Len(req.offers) :
           /\ responses[k].results[j] # <<>>
           /\ responses[k].results[j][1].offerType = req.offers[j].offerType
           /\ responses[k].results[j][1].offerDescription
                = req.offers[j].offerDescription

(* A batch of two different offers was answered with its two results. *)
C12_Witness ==
  /\ hpc = "done"
  /\ Len(req.offers) = 2
  /\ req.offers[1] # req.offers[2]
  /\ responses[1].status = 200
  /\ Len(responses[1].results) = 2

WorkerExited(w) == wpc[w] \in {"fulfilled", "rejected"}

Returned == hpc = "done" /\ ret # <<>>

(* C14 as written: when mapWithConcurrency returns, with results or with  *)
(* a failure, every worker it launched has exited.                        *)
C14_AsWritten ==
  Returned => \A w \in DOMAIN wpc : WorkerExited(w)

(* C14, amended: when mapWithConcurrency returns results, every worker it *)
(* launched has exited and no index is left to claim; when it returns a   *)
(* failure, the worker whose invocation failed first has exited, and the  *)
(* other workers may still be running.                                    *)
C14_ReturnAfterWorkers ==
  Returned =>
    /\ ret[1].ok =>
         /\ \A w \in DOMAIN wpc : wpc[w] = "fulfilled"
         /\ nextIndex = Len(items)
         /\ \A i \in Indexes(items) : results[i] # <<>>
    /\ ~ret[1].ok =>
         \E w \in DOMAIN wpc :
           /\ wpc[w] = "rejected"
           /\ TaskFailed(wi[w])
           /\ fnOut[wi[w]][1].error = ret[1].error

(* Three items shared by two workers were all returned, the workers gone. *)
C14_Witness ==
  /\ Returned
  /\ ret[1].ok
  /\ Len(items) = 3
  /\ concurrency = 2
  /\ \A w \in DOMAIN wpc : wpc[w] = "fulfilled"

(* C15: once an invocation has failed, every invocation whose call is in  *)
(* flight still settles (none is cancelled); the failure that             *)
(* mapWithConcurrency rejected with never changes; the handler answers    *)
(* once, with that failure and without results, and the answer never      *)
(* changes afterwards.                                                    *)
C15_SiblingsDiscarded ==
  /\ \A i \in 0..(MaxLiveN - 1) :
       (SomeTaskFailed /\ Called(i)) ~> Terminal(i)
  /\ [][all.state = "rejected" => all' = all]_vars
  /\ [][responses # <<>> => responses' = responses]_vars
  /\ [](Len(responses) <= 1)
  /\ []((hpc = "done" /\ SomeTaskFailed) =>
          /\ all.state = "rejected"
          /\ TaskFailed(all.reason[1].task)
          /\ responses = <<ErrorResponse(all.reason[1])>>
          /\ "results" \notin DOMAIN responses[1])

(* The batch was answered with the failure of one task while the call of  *)
(* a sibling task was still in flight.                                    *)
C15_Witness ==
  /\ hpc = "done"
  /\ Len(responses) = 1
  /\ responses[1].status # 200
  /\ \E w, v \in DOMAIN wpc :
       /\ wpc[w] = "rejected"
       /\ InFlightCall(v)
       /\ fnOut[wi[v]] = <<>>

OutOfBounds(offer) ==
  \/ offer.offerType \notin {"discount", "bundle", "limited-time", "loyalty",
                             "free-trial", "referral", "seasonal",
                             "clearance"}
  \/ Len(offer.offerDescription) = 0
  \/ Len(offer.offerDescription) > 2000
  \/ ("existingCopy" \in DOMAIN offer /\ Len(offer.existingCopy) > 5000)

(* C16: a request with an item whose offerType is outside the eight       *)
(* types, whose description has 0 or more than 2000 characters or whose   *)
(* existingCopy has more than 5000 is answered with the bad request       *)
(* response before any task runs; a request of 1 to 50 items none of      *)
(* which is so, items at the bounds included, is accepted.                *)
C16_FieldBounds ==
  hpc # "received" =>
    /\ (\E k \in 1..Len(req.offers) : OutOfBounds(req.offers[k])) =>
         /\ responses = <<BadRequestResponse>>
         /\ hpc = "done"
         /\ SchedulerUntouched
    /\ (Len(req.offers) \in 1..50
          /\ \A k \in 1..Len(req.offers) : ~OutOfBounds(req.offers[k])) =>
         /\ responses = <<>>
         /\ hpc = "awaiting"
         /\ items = req.offers
         /\ Started = Min(10, Len(req.offers))

(* A request whose second item has a description of 2000 characters and   *)
(* an existingCopy of 5000 was accepted and its tasks started.            *)
C16_Witness ==
  /\ hpc = "awaiting"
  /\ Len(req.offers) = 2
  /\ Len(req.offers[2].offerDescription) = 2000
  /\ "existingCopy" \in DOMAIN req.offers[2]
  /\ Len(req.offers[2].existingCopy) = 5000
  /\ Started = 2

(* C17: the copy of every Task Result has, under each of the five keys,   *)
(* the value the parsed document has under it, a null as a null; its      *)
(* processingTimeMs is not negative; the totalProcessingTimeMs of a       *)
(* response is not negative and not less than the processingTimeMs of any *)
(* of its results; the clock never goes back.                             *)
C17_CopyVerbatim ==
  /\ [](\A i \in DOMAIN fnOut :
          TaskSucceeded(i) =>
            /\ ParsedAnswer(i) # <<>>
            /\ ParsedAnswer(i)[1].t = "object"
            /\ \A k \in {"headline", "subheadline", "body", "callToAction",
                         "legalDisclaimer"} :
                 /\ k \in DOMAIN ParsedAnswer(i)[1].f
                 /\ fnOut[i][1].value.copy[k] = ParsedAnswer(i)[1].f[k]
            /\ fnOut[i][1].value.processingTimeMs >= 0)
  /\ [](\A k \in 1..Len(responses) :
          responses[k].status = 200 =>
            /\ responses[k].totalProcessingTimeMs >= 0
            /\ \A j \in 1..Len(responses[k].results) :
                 responses[k].totalProcessingTimeMs
                   >= responses[k].results[j][1].processingTimeMs)
  /\ [][now' >= now]_vars

(* The document of the API reference came back after one step of the      *)
(* clock and its two nulls are in the copy of the response.               *)
C17_Witness ==
  /\ hpc = "done"
  /\ ParsedAnswer(0) = <<DocExample>>
  /\ responses[1].status = 200
  /\ responses[1].results[1][1].copy.subheadline = JNull
  /\ responses[1].results[1][1].copy.headline = JStr(<<"S">>)
  /\ responses[1].results[1][1].processingTimeMs = TickMs
  /\ responses[1].totalProcessingTimeMs >= TickMs

(* C18: the message of the malformed output failure is its fixed opening  *)
(* of 39 characters, the first 60 characters of the description (all of   *)
(* it when shorter), the 4 characters that close the quotation, and the   *)
(* first 200 characters of the raw text (all of it when shorter), in that *)
(* order and nothing else: at most 43 + 260 characters; the response of   *)
(* the batch carries that message.                                        *)
C18_MessageExcerpts ==
  \A i \in DOMAIN fnOut :
    (texts[i] # <<>> /\ ParsedAnswer(i) = <<>>) =>
      LET m == fnOut[i][1].error.message
          d == At(items, i).offerDescription
          r == texts[i][1]
          nd == IF Len(d) < 60 THEN Len(d) ELSE 60
          nr == IF Len(r) < 200 THEN Len(r) ELSE 200
      IN  /\ TaskFailed(i)
          /\ Len(m) = 39 + nd + 4 + nr
          /\ Len(m) <= 43 + 260
          /\ SubSeq(m, 1, 39) = MsgInvalidJson
          /\ SubSeq(m, 40, 39 + nd) = SubSeq(d, 1, nd)
          /\ SubSeq(m, 40 + nd, 43 + nd) = MsgEllipsis
          /\ SubSeq(m, 44 + nd, Len(m)) = SubSeq(r, 1, nr)
          /\ \A k \in 1..Len(m) : m[k] \notin {"D", "R"}
          /\ \A k \in 1..Len(responses) : responses[k].message = m

(* A description of 2000 characters and an answer of 300 that is no JSON  *)
(* gave a message of 303 characters, which the response carries.          *)
C18_Witness ==
  /\ hpc = "done"
  /\ Len(At(items, 0).offerDescription) = 2000
  /\ texts[0] # <<>>
  /\ Len(texts[0][1]) = 300
  /\ MalformedOutput(0)
  /\ Len(fnOut[0][1].error.message) = 303
  /\ responses[1].status = 500
  /\ responses[1].message = fnOut[0][1].error.message

(* C19: no index is claimed twice and the indexes are claimed in order;   *)
(* two workers at work are on different indexes; a slot changes only from *)
(* empty to the value the task of the worker that claimed its index       *)
(* settled with; no slot is written twice; and when mapWithConcurrency    *)
(* returns without a failure each of the N slots has been written once.   *)
C19_DisjointSlots ==
  /\ [](\A i \in DOMAIN fnCalls : fnCalls[i] <= 1 /\ (fnCalls[i] = 1 <=> i < nextIndex))
  /\ [](\A i \in DOMAIN writes : writes[i] <= 1 /\ (writes[i] = 1 <=> results[i] # <<>>))
  /\ [](\A w, v \in DOMAIN wpc :
          (w # v /\ ~WorkerExited(w) /\ ~WorkerExited(v)) => wi[w] # wi[v])
  /\ [][\A i \in DOMAIN results :
          results'[i] # results[i] =>
            /\ results[i] = <<>>
            /\ \E w \in DOMAIN wpc :
                 /\ wpc[w] = "settled"
                 /\ wi[w] = i
                 /\ wout[w][1].ok
                 /\ results'[i] = <<wout[w][1].value>>
                 /\ wout[w] = fnOut[i]
                 /\ \A j \in DOMAIN results \ {i} : results'[j] = results[j]]_vars
  /\ []((Returned /\ ~SomeTaskFailed) =>
          \A i \in Indexes(items) : writes[i] = 1 /\ fnCalls[i] = 1)

(* Two workers have shared three items and each slot was written once. *)
C19_Witness ==
  /\ Returned
  /\ ret[1].ok
  /\ Len(items) = 3
  /\ Cardinality(DOMAIN wpc) = 2
  /\ \A i \in Indexes(items) :
       writes[i] = 1 /\ results[i] = <<fnOut[i][1].value>>

(* C20: once an invocation of fn has failed, no worker claims an index    *)
(* that was unclaimed and no invocation of fn is started.                 *)
C20_NoClaimAfterFailure ==
  [][SomeTaskFailed => nextIndex' = nextIndex /\ fnCalls' = fnCalls]_vars

FailedTasks == {i \in DOMAIN fnOut : TaskFailed(i)}

(* C21: a failure that Promise.all has not rejected with yet is the only  *)
(* failure so far, hence the first in time; the next step rejects         *)
(* Promise.all with it, whatever its index and whatever the other workers *)
(* are doing; the rejection never changes afterwards, and the response of *)
(* the batch is the response to it.                                       *)
C21_FirstFailureReported ==
  /\ []((all.state = "pending" /\ SomeTaskFailed) =>
          \E w \in DOMAIN wpc : wpc[w] = "settled" /\ FailedTasks = {wi[w]})
  /\ [][(all.state = "pending" /\ SomeTaskFailed) =>
          /\ all'.state = "rejected"
          /\ \E i \in FailedTasks : all'.reason = <<fnOut[i][1].error>>]_vars
  /\ [][all.state = "rejected" => all' = all]_vars
  /\ []((hpc = "done" /\ all.state = "rejected") =>
          /\ TaskFailed(all.reason[1].task)
          /\ responses = <<ErrorResponse(all.reason[1])>>)

(* Both tasks of a batch failed, the task of index 1 when the service     *)
(* failed and the task of index 0 at its deadline, and the response       *)
(* carries the failure of index 1.                                        *)
C21_Witness ==
  /\ hpc = "done"
  /\ Len(items) = 2
  /\ TaskFailed(0)
  /\ TaskFailed(1)
  /\ fnOut[0][1].error.kind = "TimeoutError"
  /\ fnOut[1][1].error.message = <<"service">>
  /\ all.reason[1].task = 1
  /\ responses[1].status = 500
  /\ responses[1].message = <<"service">>

(* C22: a batch that was accepted is answered, once, and with results     *)
(* only when every one of its tasks has completed.                        *)
C22_EventuallyOneResponse ==
  /\ (hpc = "awaiting") ~> (hpc = "done" /\ Len(responses) = 1)
  /\ [](Len(responses) <= 1)
  /\ [](\A k \in 1..Len(responses) :
          responses[k].status = 200 =>
            \A i \in Indexes(items) : TaskSucceeded(i))

(* C23: the generation service is called once for every task that gives a *)
(* result; the prompt of that call has the framing "revise" exactly when  *)
(* the mode of the result is "modified" and the framing "generate"        *)
(* exactly when it is "generated", and a "revise" prompt carries the      *)
(* existingCopy of the offer.                                             *)
C23_FramingAgreesWithMode ==
  \A i \in DOMAIN fnOut :
    TaskSucceeded(i) =>
      /\ Len(prompts[i]) = 1
      /\ prompts[i][1].framing \in {"revise", "generate"}
      /\ fnOut[i][1].value.mode \in {"modified", "generated"}
      /\ prompts[i][1].framing = "revise" <=> fnOut[i][1].value.mode = "modified"
      /\ prompts[i][1].framing = "generate"
           <=> fnOut[i][1].value.mode = "generated"
      /\ prompts[i][1].offerDescription = At(items, i).offerDescription
      /\ prompts[i][1].framing = "revise" =>
           prompts[i][1].existingCopy = At(items, i).existingCopy

(* An offer with an existingCopy was sent with the "revise" framing and   *)
(* answered with the mode "modified".                                     *)
C23_Witness ==
  /\ hpc = "done"
  /\ items = <<OfferRevise>>
  /\ prompts[0] = <<UserPrompt(OfferRevise)>>
  /\ prompts[0][1].framing = "revise"
  /\ responses[1].status = 200
  /\ responses[1].results[1][1].mode = "modified"

(* C24: every task starts at or after the start of the batch and every    *)
(* result is produced at or before the time of the response, the clock    *)
(* never going back; so the totalProcessingTimeMs of a response with      *)
(* results is at least the processingTimeMs of each of its results, and   *)
(* at least the time from the start of the batch to the end of each task. *)
C24_TotalCoversTasks ==
  /\ [][now' >= now]_vars
  /\ [](hpc # "received" =>
          /\ batchStart <= now
          /\ \A w \in DOMAIN wpc : batchStart <= wstart[w] /\ wstart[w] <= now
          /\ \A i \in DOMAIN fnOut, w \in DOMAIN wpc :
               (TaskSucceeded(i) /\ wi[w] = i) =>
                 wstart[w] + fnOut[i][1].value.processingTimeMs <= now)
  /\ [](\A k \in 1..Len(responses) :
          responses[k].status = 200 =>
            /\ batchStart + responses[k].totalProcessingTimeMs <= now
            /\ \A j \in 1..Len(responses[k].results), w \in DOMAIN wpc :
                 LET r == responses[k].results[j][1]
                 IN  /\ r.processingTimeMs <= responses[k].totalProcessingTimeMs
                     /\ wi[w] = j - 1 =>
                          (wstart[w] - batchStart) + r.processingTimeMs
                            <= responses[k].totalProcessingTimeMs)

(* A batch of two was answered after two steps of the clock, one of its   *)
(* tasks having taken one step and the other two.                         *)
C24_Witness ==
  /\ hpc = "done"
  /\ responses[1].status = 200
  /\ Len(responses[1].results) = 2
  /\ responses[1].results[1][1].processingTimeMs = TickMs
  /\ responses[1].results[2][1].processingTimeMs = 2 * TickMs
  /\ responses[1].totalProcessingTimeMs = 2 * TickMs

(* C25: a task that has started and has not settled is inside its call of *)
(* the generation service, the one place where it is suspended, and so it *)
(* has not been under way for longer than the deadline and one step of    *)
(* the clock.                                                             *)
C25_SuspendsOnlyAtCall ==
  \A w \in DOMAIN wpc :
    wpc[w] \in {"lookup", "generate"} =>
      /\ InFlightCall(w)
      /\ now - wstart[w] < PER_OFFER_TIMEOUT_MS + TickMs

Claimed == {i \in DOMAIN fnCalls : fnCalls[i] > 0}

(* C26: the cursor nextIndex is never above N, it is the number of        *)
(* invocations of fn started so far and the claimed indexes are those     *)
(* below it; it never goes down; the launch claims 0..min(K, N)-1, worker *)
(* by worker, and every later claim takes the index the cursor stands at  *)
(* and moves the cursor up by one.                                        *)
C26_CursorCountsClaims ==
  /\ [](/\ nextIndex \in 0..Len(items)
        /\ nextIndex = Started
        /\ Claimed = 0..(nextIndex - 1)
        /\ \A w \in DOMAIN wpc : wi[w] < nextIndex)
  /\ [][nextIndex' >= nextIndex]_vars
  /\ [][hpc = "direct" =>
          /\ nextIndex' = Min(concurrency, Len(req.offers))
          /\ \A w \in DOMAIN wpc' : wi'[w] = w - 1]_vars
  /\ [][(hpc # "direct" /\ nextIndex' # nextIndex) =>
          /\ nextIndex' = nextIndex + 1
          /\ Claimed' = Claimed \cup {nextIndex}
          /\ \E w \in DOMAIN wpc :
               /\ wpc[w] = "settled"
               /\ wpc'[w] = "lookup"
               /\ wi[w] < nextIndex
               /\ wi'[w] = nextIndex]_vars

(* Two workers are on the items of three: the launch claimed indexes 0    *)
(* and 1, the worker of index 1 has since claimed index 2, and the task   *)
(* of index 0 is still running.                                           *)
C26_Witness ==
  /\ hpc = "direct_awaiting"
  /\ Len(items) = 3
  /\ concurrency = 2
  /\ nextIndex = 3
  /\ wi = <<0, 2>>
  /\ wpc[2] = "lookup"
  /\ fnOut[0] = <<>>
  /\ fnOut[1] # <<>>

====
